---- MODULE Spec2Model ----
(***************************************************************************)
(* The sliding-tile game of src/src/app.rs: the puzzle signal (board and   *)
(* seed), the move history, the dev-mode flag and the GameState machine,    *)
(* driven by key, pointer and repaint events.                               *)
(*                                                                          *)
(* The board operations (slide_from, is_solved, random_with_rng) belong to  *)
(* the jugo crate, of which app.rs holds only the calls; they are modelled  *)
(* from the specification's section 4.1.                                    *)
(***************************************************************************)
EXTENDS Integers, Sequences, FiniteSets

\* ---------------------------------------------------------------- bounds
\* The clock readings run over 0..MaxTime.
MaxTime == 1
\* Number of successful moves made on one generated board.
MaxMoves == 2
\* The seeds drawn by thread_rng: the first byte is in 0..MaxSeedByte, every
\* other byte is 0.
MaxSeedByte == 1

\* ------------------------------------------------------ program constants
Width == 4
Height == 4
SeedLen == 32

shape0 == <<Width, Height>>

VARIABLES puzzle, history, dev_mode, game_state, now, moves

vars == <<puzzle, history, dev_mode, game_state, now, moves>>

\* ------------------------------------------------------------- GameState
NotSolving == [tag |-> "NotSolving"]
Solving(since) == [tag |-> "Solving", since |-> since]
Solved(took) == [tag |-> "Solved", took |-> took]

\* Option: None is the empty tuple, Some(v) the tuple of v.
None == <<>>
Some(v) == <<v>>

\* solve_time that reads a Solved state's took as an instant.
solve_time_live(state) ==
    CASE state.tag = "Solving" -> Some(now - state.since)
      [] state.tag = "Solved" -> Some(now - state.took)
      [] OTHER -> None

\* GameState::solve_time: Option<Duration>.
solve_time(state) ==
    CASE state.tag = "Solving" -> Some(now - state.since)
      [] state.tag = "Solved" -> Some(state.took)
      [] OTHER -> None

\* ------------------------------------------------------------ the board
\* Position index of the coordinate (x, y) on a board of the given width.
IndexOf(idx, shape) == idx[2] * shape[1] + idx[1]

\* The cell at position index i (0-based) of a sequence of cells.
At(cells, i) == cells[i + 1]

\* Position index of a piece.
PositionOf(cells, piece) == CHOOSE i \in 0..(Len(cells) - 1) : At(cells, i) = piece

CoordOf(i, shape) == <<i % shape[1], i \div shape[1]>>

Abs(n) == IF n < 0 THEN -n ELSE n

Sign(n) == IF n < 0 THEN -1 ELSE IF n > 0 THEN 1 ELSE 0

\* The canonical ordering [1, 2, ..., n-1, 0].
SolvedCells(n) == [i \in 1..n |-> IF i = n THEN 0 ELSE i]

\* is_solved with the last two positions left out of the comparison.
is_solved_short(p) ==
    LET n == Len(p.cells)
    IN  \A i \in 0..(n - 3) : At(p.cells, i) = i + 1

\* is_solved: every piece but the hole sits at position label - 1 and the
\* hole sits at the last position.
is_solved(p) ==
    LET n == Len(p.cells)
    IN  \A i \in 0..(n - 1) :
            IF At(p.cells, i) = 0 THEN i = n - 1 ELSE At(p.cells, i) = i + 1

\* Swap that writes only one of the two cells.
SwapLossy(cells, i, j) == [cells EXCEPT ![i + 1] = At(cells, j)]

Swap(cells, i, j) ==
    [cells EXCEPT ![i + 1] = At(cells, j), ![j + 1] = At(cells, i)]

\* slide_towards(direction, distance): the tiles next to the hole move one
\* cell in the direction, one after the other, distance times; each single
\* move exchanges the hole with the tile behind it.
RECURSIVE slide_towards(_, _, _)
slide_towards(p, direction, distance) ==
    LET h == PositionOf(p.cells, 0)
        t == h - IndexOf(direction, p.shape)
    IN  IF distance = 0 THEN p
        ELSE slide_towards([p EXCEPT !.cells = Swap(p.cells, h, t)],
                           direction, distance - 1)

\* slide_from as an exchange of the hole with the tile at origin.
slide_from_exchange(p, origin) ==
    LET h == PositionOf(p.cells, 0)
        hole == CoordOf(h, p.shape)
        dx == hole[1] - origin[1]
        dy == hole[2] - origin[2]
    IN  IF dx # 0 /\ dy # 0 THEN [moved |-> 0, puzzle |-> p]
        ELSE [moved |-> Abs(dx) + Abs(dy),
              puzzle |-> [p EXCEPT !.cells = Swap(p.cells, h, IndexOf(origin, p.shape))]]

\* slide_from without the alignment test: an origin off the hole's row and
\* column slides the hole's row up to the origin's column.
slide_from_unaligned(p, origin) ==
    LET hole == CoordOf(PositionOf(p.cells, 0), p.shape)
        dx == hole[1] - origin[1]
        dy == hole[2] - origin[2]
    IN  IF dx # 0 /\ dy # 0
        THEN [moved |-> Abs(dx), puzzle |-> slide_towards(p, <<Sign(dx), 0>>, Abs(dx))]
        ELSE [moved |-> Abs(dx) + Abs(dy),
              puzzle |-> slide_towards(p, <<Sign(dx), Sign(dy)>>, Abs(dx) + Abs(dy))]

\* slide_from that slides the hole's row before it finds the origin off the
\* hole's row and column, and then reports no move.
slide_from_dirty(p, origin) ==
    LET hole == CoordOf(PositionOf(p.cells, 0), p.shape)
        dx == hole[1] - origin[1]
        dy == hole[2] - origin[2]
    IN  IF dx # 0 /\ dy # 0
        THEN [moved |-> 0, puzzle |-> slide_towards(p, <<Sign(dx), 0>>, Abs(dx))]
        ELSE [moved |-> Abs(dx) + Abs(dy),
              puzzle |-> slide_towards(p, <<Sign(dx), Sign(dy)>>, Abs(dx) + Abs(dy))]

\* slide_from(origin): [moved, puzzle]. The origin is translated to the
\* direction from origin to the hole and the distance between them along
\* the shared row or column; moved is 0 (and the board is left alone) when
\* origin is the hole or shares neither row nor column with it.
slide_from(p, origin) ==
    LET hole == CoordOf(PositionOf(p.cells, 0), p.shape)
        dx == hole[1] - origin[1]
        dy == hole[2] - origin[2]
    IN  IF dx # 0 /\ dy # 0 THEN [moved |-> 0, puzzle |-> p]
        ELSE [moved |-> Abs(dx) + Abs(dy),
              puzzle |-> slide_towards(p, <<Sign(dx), Sign(dy)>>, Abs(dx) + Abs(dy))]

\* --------------------------------------------------------------- seeds
SeedOf(k, v) == [i \in 1..SeedLen |-> IF i = k THEN v ELSE 0]

Seeds == {SeedOf(1, v) : v \in 0..MaxSeedByte}

\* The seeds with at most one byte set, to a value that makes its draw pick
\* another position: they generate the canonical board and every board that
\* differs from it by the exchange of two cells.
BoardSeeds ==
    UNION {{SeedOf(k, v) : v \in 0..(Width * Height - k)} : k \in 1..(Width * Height - 1)}

\* A shuffle of the w*h labels driven by the successive seed bytes: draw
\* number k picks the partner of position n-k among the positions 0..n-k.
RECURSIVE Shuffle(_, _, _)
Shuffle(cells, seed, k) ==
    LET n == Len(cells)
        i == n - k
    IN  IF i < 1 \/ k > Len(seed) THEN cells
        ELSE Shuffle(Swap(cells, i, i - (seed[k] % (i + 1))), seed, k + 1)

random_with_rng(seed, shape) == Shuffle(SolvedCells(shape[1] * shape[2]), seed, 1)

\* new_from_seed that stores a default seed instead of the one it used.
new_from_seed_default(seed, shape) ==
    [shape |-> shape, cells |-> random_with_rng(seed, shape), seed |-> SeedOf(1, 0)]

\* SeedablePuzzle::new_from_seed
new_from_seed(seed, shape) ==
    [shape |-> shape, cells |-> random_with_rng(seed, shape), seed |-> seed]

\* SeedablePuzzle::new: the seed comes from thread_rng.
new(seed, shape) == new_from_seed(seed, shape)

\* ------------------------------------------------------------ the keys
KEY_IDX_MAP ==
    [k \in {"4", "5", "6", "7", "r", "t", "y", "u",
            "f", "g", "h", "j", "v", "b", "n", "m"} |->
        CASE k = "4" -> <<0, 0>> [] k = "5" -> <<1, 0>> [] k = "6" -> <<2, 0>> [] k = "7" -> <<3, 0>>
          [] k = "r" -> <<0, 1>> [] k = "t" -> <<1, 1>> [] k = "y" -> <<2, 1>> [] k = "u" -> <<3, 1>>
          [] k = "f" -> <<0, 2>> [] k = "g" -> <<1, 2>> [] k = "h" -> <<2, 2>> [] k = "j" -> <<3, 2>>
          [] k = "v" -> <<0, 3>> [] k = "b" -> <<1, 3>> [] k = "n" -> <<2, 3>> [] k = "m" -> <<3, 3>>]

\* The keys of the last match arm: the mapped keys and one unmapped key.
OtherKeys == DOMAIN KEY_IDX_MAP \cup {"x"}

\* The cells of the grid that carry the pointer handlers.
CellIndices == 0..(puzzle.shape[1] * puzzle.shape[2] - 1)

\* ------------------------------------------------------------ App::slide
\* The closure's return value: the number of tiles moved, 0 when slide_from
\* gave None or Some(0).
slide_moved(idx) ==
    LET r == slide_from(puzzle, idx)
    IN  IF r.moved >= 1 THEN r.moved ELSE 0

\* slide's match with took read from the clock alone.
slide_state_took_now(state, p) ==
    CASE state.tag = "NotSolving" -> Solving(now)
      [] state.tag = "Solving" /\ is_solved(p) -> Solved(now)
      [] OTHER -> state

\* slide's match with the solved test ahead of the NotSolving arm.
slide_state_solved_first(state, p) ==
    CASE state.tag # "Solved" /\ is_solved(p) ->
            Solved(IF state.tag = "Solving" THEN now - state.since ELSE 0)
      [] state.tag = "NotSolving" -> Solving(now)
      [] OTHER -> state

\* slide's match with the clock restarted by every move made while Solving.
slide_state_restart(state, p) ==
    CASE state.tag = "NotSolving" -> Solving(now)
      [] state.tag = "Solving" /\ is_solved(p) -> Solved(now - state.since)
      [] state.tag = "Solving" -> Solving(now)
      [] OTHER -> state

\* slide's match with a Solved state sent back to Solving by a move.
slide_state_reopens(state, p) ==
    CASE state.tag = "NotSolving" -> Solving(now)
      [] state.tag = "Solving" /\ is_solved(p) -> Solved(now - state.since)
      [] state.tag = "Solved" -> Solving(now)
      [] OTHER -> state

\* slide's match with a solved board ending the session from NotSolving too.
slide_state_instant(state, p) ==
    CASE state.tag = "NotSolving" /\ is_solved(p) -> Solved(0)
      [] state.tag = "NotSolving" -> Solving(now)
      [] state.tag = "Solving" /\ is_solved(p) -> Solved(now - state.since)
      [] OTHER -> state

\* The game state after a slide that moved tiles, given the board after it.
slide_state(state, p) ==
    CASE state.tag = "NotSolving" -> Solving(now)
      [] state.tag = "Solving" /\ is_solved(p) -> Solved(now - state.since)
      [] OTHER -> state

\* slide without the early return on a slide that moved nothing.
slide_no_return(idx) ==
    LET r == slide_from(puzzle, idx)
    IN  /\ moves < MaxMoves
        /\ puzzle' = r.puzzle
        /\ game_state' = slide_state(game_state, r.puzzle)
        /\ moves' = IF r.moved >= 1 THEN moves + 1 ELSE moves

\* The closure's effect on the puzzle and the game state. A move request
\* is handled while the board has moves left; moves counts the successful
\* moves since the board was generated.
slide(idx) ==
    LET r == slide_from(puzzle, idx)
    IN  /\ moves < MaxMoves
        /\ IF r.moved >= 1
           THEN /\ puzzle' = r.puzzle
                /\ game_state' = slide_state(game_state, r.puzzle)
                /\ moves' = moves + 1
           ELSE UNCHANGED <<puzzle, game_state, moves>>

\* ------------------------------------------------------------ on_keydown
\* The space arm without its history.clear.
KeySpace_keeps_history ==
    /\ moves' = 0
    /\ \E seed \in Seeds : puzzle' = new(seed, puzzle.shape)
    /\ game_state' = NotSolving
    /\ UNCHANGED <<history, dev_mode, now>>

\* The space arm without its game_state.set.
KeySpace_keeps_state ==
    /\ moves' = 0
    /\ \E seed \in Seeds : puzzle' = new(seed, puzzle.shape)
    /\ history' = <<>>
    /\ UNCHANGED <<dev_mode, game_state, now>>

\* " ": a fresh puzzle of the same shape, an empty history, NotSolving.
KeySpace ==
    /\ moves' = 0
    /\ \E seed \in Seeds : puzzle' = new(seed, puzzle.shape)
    /\ history' = <<>>
    /\ game_state' = NotSolving
    /\ UNCHANGED <<dev_mode, now>>

KeyD ==
    /\ dev_mode' = ~dev_mode
    /\ UNCHANGED <<puzzle, history, game_state, now, moves>>

Key1 ==
    /\ game_state' = NotSolving
    /\ UNCHANGED <<puzzle, history, dev_mode, now, moves>>

\* Key "2" that resumes the clock of a Solved state instead of restarting it.
Key2_resumes ==
    /\ game_state' = IF game_state.tag = "Solved"
                     THEN Solving(now - game_state.took)
                     ELSE Solving(now)
    /\ UNCHANGED <<puzzle, history, dev_mode, now, moves>>

Key2 ==
    /\ game_state' = Solving(now)
    /\ UNCHANGED <<puzzle, history, dev_mode, now, moves>>

\* Key "3" without the guard on Solving: took is the clock reading when
\* there is no since.
Key3_unguarded ==
    /\ game_state' = IF game_state.tag = "Solving"
                     THEN Solved(now - game_state.since)
                     ELSE Solved(now)
    /\ UNCHANGED <<puzzle, history, dev_mode, now, moves>>

Key3 ==
    /\ game_state' = IF game_state.tag = "Solving"
                     THEN Solved(now - game_state.since)
                     ELSE game_state
    /\ UNCHANGED <<puzzle, history, dev_mode, now, moves>>

\* The default arm without the test of moved: every mapped key is appended.
KeyOther_always_appends(key) ==
    /\ IF key \in DOMAIN KEY_IDX_MAP
       THEN /\ slide(KEY_IDX_MAP[key])
            /\ history' = Append(history, key)
       ELSE UNCHANGED <<puzzle, history, game_state, moves>>
    /\ UNCHANGED <<dev_mode, now>>

\* Any other key: a mapped key slides and is appended to the history when
\* tiles moved; an unmapped key does nothing.
KeyOther(key) ==
    /\ IF key \in DOMAIN KEY_IDX_MAP
       THEN /\ slide(KEY_IDX_MAP[key])
            /\ history' = IF slide_moved(KEY_IDX_MAP[key]) > 0
                          THEN Append(history, key)
                          ELSE history
       ELSE UNCHANGED <<puzzle, history, game_state, moves>>
    /\ UNCHANGED <<dev_mode, now>>

\* The cells' closure with the move recorded in the history.
Pointer_appends(index) ==
    LET idx == <<index % puzzle.shape[1], index \div puzzle.shape[1]>>
    IN  /\ slide(idx)
        /\ history' = IF slide_moved(idx) > 0 THEN Append(history, "p") ELSE history
        /\ UNCHANGED <<dev_mode, now>>

\* -------------------------------------------------- the cells' handlers
Pointer(index) ==
    LET idx == <<index % puzzle.shape[1], index \div puzzle.shape[1]>>
    IN  /\ slide(idx)
        /\ UNCHANGED <<history, dev_mode, now>>

OnMouseDown(index) == Pointer(index)

\* mousemove slides only while the primary button is held.
OnMouseMove(index, buttons) ==
    IF buttons % 2 = 1
    THEN Pointer(index)
    ELSE UNCHANGED <<puzzle, history, dev_mode, game_state, now, moves>>

OnTouchStart(index) == Pointer(index)

\* A repaint callback that polls the board and ends the session itself.
PrePaint_polls ==
    /\ game_state' = IF game_state.tag = "Solving" /\ is_solved(puzzle)
                     THEN Solved(now - game_state.since)
                     ELSE game_state
    /\ UNCHANGED <<puzzle, history, dev_mode, now, moves>>

\* ------------------------------------------------------------- pre_paint
\* The repaint callback reads solve_time (zero for None) and writes it to
\* the text of the two timer nodes, which are no part of the state.
PrePaint ==
    /\ (IF solve_time(game_state) = None THEN 0 ELSE solve_time(game_state)[1]) \in 0..MaxTime
    /\ UNCHANGED <<puzzle, history, dev_mode, game_state, now, moves>>

\* The clock moves on between two events.
Advance ==
    /\ now < MaxTime
    /\ now' = now + 1
    /\ UNCHANGED <<puzzle, history, dev_mode, game_state, moves>>

\* ------------------------------------------------------------------ App
Init ==
    /\ \E seed \in Seeds : puzzle = new(seed, shape0)
    /\ history = <<>>
    /\ dev_mode = FALSE
    /\ game_state = NotSolving
    /\ now = 0
    /\ moves = 0

Next ==
    \/ KeySpace
    \/ KeyD
    \/ Key1
    \/ Key2
    \/ Key3
    \/ \E key \in OtherKeys : KeyOther(key)
    \/ \E index \in CellIndices : OnMouseDown(index)
    \/ \E index \in CellIndices, buttons \in 0..1 : OnMouseMove(index, buttons)
    \/ \E index \in CellIndices : OnTouchStart(index)
    \/ PrePaint
    \/ Advance

Spec == Init /\ [][Next]_vars

\* The boards one exchange away from the canonical one, under the slides
\* of the mousedown handler.
InitBoard ==
    /\ \E seed \in BoardSeeds : puzzle = new(seed, shape0)
    /\ history = <<>>
    /\ dev_mode = FALSE
    /\ game_state = NotSolving
    /\ now = 0
    /\ moves = 0

NextBoard == \E index \in CellIndices : OnMouseDown(index)

SpecBoard == InitBoard /\ [][NextBoard]_vars

\* ------------------------------------------------------------ the claims
Coords == {<<x, y>> : x \in 0..(Width - 1), y \in 0..(Height - 1)}

\* The step is a move request for the cell idx, by key or by pointer.
MoveRequest(idx) ==
    \/ \E key \in DOMAIN KEY_IDX_MAP : KEY_IDX_MAP[key] = idx /\ KeyOther(key)
    \/ Pointer(IndexOf(idx, puzzle.shape))

\* The step is a move request whose slide moved at least one tile.
SuccessfulMove == moves' = moves + 1

\* C1: a successful move made while Solving{since} that leaves the board
\* solved turns the state into Solved{took} with took = now - since, now
\* being the clock reading of the move, and solve_time stays at that value.
C1_SolvingToSolved ==
    [][(game_state.tag = "Solving" /\ SuccessfulMove /\ is_solved(puzzle'))
        => /\ game_state' = Solved(now - game_state.since)
           /\ solve_time(game_state)' = Some(now - game_state.since)]_vars

\* The board solved by the second move, one clock reading after the first
\* move started the clock.
C1_Witness ==
    /\ game_state = Solved(1)
    /\ is_solved(puzzle)
    /\ moves = 2
    /\ Len(history) = 2

\* C2: a successful move made while NotSolving turns the state into
\* Solving{since: now}, now being the clock reading of the move.
C2_NotSolvingToSolving ==
    [][(game_state.tag = "NotSolving" /\ SuccessfulMove)
        => game_state' = Solving(now)]_vars

\* The first move of a board, made at clock reading 1.
C2_Witness ==
    /\ game_state = Solving(1)
    /\ moves = 1
    /\ Len(history) = 1
    /\ puzzle.cells # random_with_rng(puzzle.seed, puzzle.shape)

\* C3: a successful move made while Solving{since} that leaves the board
\* unsolved leaves the game state as it is.
C3_SolvingStays ==
    [][(game_state.tag = "Solving" /\ SuccessfulMove /\ ~is_solved(puzzle'))
        => game_state' = game_state]_vars

\* Two moves on an unsolved board, the clock started by the first one and
\* read again later.
C3_Witness ==
    /\ game_state = Solving(0)
    /\ now = 1
    /\ moves = 2
    /\ Len(history) = 2
    /\ ~is_solved(puzzle)

\* cells holds every label 0..w*h-1 and the hole only once.
IsPermutation(p) ==
    /\ Len(p.cells) = p.shape[1] * p.shape[2]
    /\ {p.cells[i] : i \in 1..Len(p.cells)} = 0..(p.shape[1] * p.shape[2] - 1)
    /\ Cardinality({i \in 1..Len(p.cells) : p.cells[i] = 0}) = 1

\* C4: after any sequence of move requests and regenerations the cells are
\* a permutation of 0..w*h-1 with exactly one hole.
C4_Permutation == IsPermutation(puzzle)

\* A regenerated board after moves.
C4_Witness ==
    /\ IsPermutation(puzzle)
    /\ moves = MaxMoves
    /\ puzzle.seed # SeedOf(1, 0)
    /\ puzzle.cells # random_with_rng(puzzle.seed, puzzle.shape)

Aligned(p, origin) ==
    LET hole == CoordOf(PositionOf(p.cells, 0), p.shape)
    IN  /\ origin # hole
        /\ origin[1] = hole[1] \/ origin[2] = hole[2]

Distance(p, origin) ==
    LET hole == CoordOf(PositionOf(p.cells, 0), p.shape)
    IN  Abs(hole[1] - origin[1]) + Abs(hole[2] - origin[2])

\* x lies after a on the way from a to b, b included.
Between(a, b, x) == (a < x /\ x <= b) \/ (b <= x /\ x < a)

\* The board the claim describes for a slide from an aligned origin.
ExpectedCells(p, origin) ==
    LET hole == CoordOf(PositionOf(p.cells, 0), p.shape)
        sx == Sign(hole[1] - origin[1])
        sy == Sign(hole[2] - origin[2])
    IN  [i \in 1..Len(p.cells) |->
            LET c == CoordOf(i - 1, p.shape)
            IN  IF c = origin THEN 0
                ELSE IF c[2] = origin[2] /\ c[2] = hole[2] /\ Between(origin[1], hole[1], c[1])
                     THEN At(p.cells, IndexOf(<<c[1] - sx, c[2]>>, p.shape))
                ELSE IF c[1] = origin[1] /\ c[1] = hole[1] /\ Between(origin[2], hole[2], c[2])
                     THEN At(p.cells, IndexOf(<<c[1], c[2] - sy>>, p.shape))
                ELSE p.cells[i]]

\* C5: from an origin in the hole's row or column, not the hole, slide_from
\* returns the distance d >= 1 to the hole, moves the d tiles from origin up
\* to the hole one cell toward the hole, leaves the hole at origin and every
\* other cell as it was.
C5_SlideAligned ==
    \A origin \in Coords :
        Aligned(puzzle, origin) =>
            LET r == slide_from(puzzle, origin)
            IN  /\ r.moved = Distance(puzzle, origin)
                /\ r.moved >= 1
                /\ r.puzzle.cells = ExpectedCells(puzzle, origin)
                /\ At(r.puzzle.cells, IndexOf(origin, puzzle.shape)) = 0

\* The canonical 4x4 board after the slide from (0, 3): three tiles moved
\* right and the hole at (0, 3).
C5_Witness ==
    /\ moves = 1
    /\ puzzle.seed = SeedOf(1, 0)
    /\ puzzle.cells = <<1, 2, 3, 4, 5, 6, 7, 8, 9, 10, 11, 12, 0, 13, 14, 15>>
    /\ slide_from(new(puzzle.seed, puzzle.shape), <<0, 3>>).moved = 3
    /\ slide_from(new(puzzle.seed, puzzle.shape), <<0, 3>>).puzzle = puzzle

\* C6: slide_from reports no move from an origin that shares neither row
\* nor column with the hole, and from the hole's own position.
C6_NoMove ==
    \A origin \in Coords :
        ~Aligned(puzzle, origin) =>
            /\ slide_from(puzzle, origin).moved = 0
            /\ slide_moved(origin) = 0

\* The canonical 4x4 board, whose hole is at (3, 3), after a move and the
\* move back: (3, 3) and the cells off the last row and column are no move.
C6_Witness ==
    /\ moves = 2
    /\ is_solved(puzzle)
    /\ slide_moved(<<3, 3>>) = 0
    /\ slide_moved(<<1, 2>>) = 0
    /\ slide_moved(<<0, 3>>) = 3

\* C7: a slide_from that reports 0 leaves every cell as it was.
C7_NoMoveNoChange ==
    \A origin \in Coords :
        slide_from(puzzle, origin).moved = 0 =>
            slide_from(puzzle, origin).puzzle.cells = puzzle.cells

\* A board with the hole inside, on which some requests move nothing.
C7_Witness ==
    /\ moves = 2
    /\ PositionOf(puzzle.cells, 0) = 5
    /\ slide_from(puzzle, <<0, 0>>).moved = 0
    /\ slide_from(puzzle, <<1, 1>>).moved = 0
    /\ slide_from(puzzle, <<1, 1>>).puzzle = puzzle

\* C8: a move request that moves no tile leaves the game state as it is, in
\* every state.
C8_NoMoveNoTransition ==
    [][\A idx \in Coords :
        (game_state' # game_state /\ slide_moved(idx) = 0) => ~MoveRequest(idx)]_vars

\* Solving on a solved board with requests left: a request for the hole's
\* cell moves nothing and the state stays Solving.
C8_Witness ==
    /\ game_state.tag = "Solving"
    /\ is_solved(puzzle)
    /\ moves < MaxMoves
    /\ slide_moved(<<3, 3>>) = 0

\* C9: is_solved is true exactly for the canonical ordering, and false for
\* the canonical ordering with two neighbouring cells exchanged.
C9_IsSolved ==
    /\ is_solved(puzzle) <=> puzzle.cells = SolvedCells(Width * Height)
    /\ \A i \in 0..(Width * Height - 2) :
        puzzle.cells = Swap(SolvedCells(Width * Height), i, i + 1) => ~is_solved(puzzle)

\* The canonical board with the tiles 14 and 15 exchanged, and after a
\* move and the move back.
C9_Witness ==
    /\ puzzle.cells = Swap(SolvedCells(Width * Height), 13, 14)
    /\ ~is_solved(puzzle)
    /\ moves = 2

\* C10: the space key and the key "1" give NotSolving from every state.
C10_Reset ==
    [][game_state' # NotSolving => ~(KeySpace \/ Key1)]_vars

\* NotSolving on a board with a move made and recorded: the move started
\* the clock and the key "1" cleared it.
C10_Witness ==
    /\ game_state = NotSolving
    /\ moves >= 1
    /\ history # <<>>

\* C11: the key "3" turns Solving{since} into Solved{took: now - since} and
\* leaves NotSolving and Solved, took included, as they are.
C11_ForceSolved ==
    [][game_state' # (IF game_state.tag = "Solving"
                      THEN Solved(now - game_state.since)
                      ELSE game_state)
        => ~Key3]_vars

\* Solved on a board without a move: the clock was started by the key "2"
\* and frozen one reading later by the key "3".
C11_Witness ==
    /\ game_state = Solved(1)
    /\ moves = 0
    /\ history = <<>>

\* C12: the key "2" gives Solving{since: now} from every state, whatever
\* since or took was before.
C12_ForceSolving ==
    [][game_state' # Solving(now) => ~Key2]_vars

\* Solving since the reading 1 on a board without a move: only the key "2"
\* starts the clock there.
C12_Witness ==
    /\ game_state = Solving(1)
    /\ moves = 0

\* C13: solve_time is None in NotSolving, now - since in Solving, read from
\* the clock at each call and so never smaller at a later call, and the same
\* took at every call in Solved, however far the clock moves.
C13_SolveTime ==
    [][/\ game_state'.tag = "NotSolving" => solve_time(game_state)' = None
       /\ game_state'.tag = "Solving" => solve_time(game_state)' = Some(now' - game_state'.since)
       /\ game_state'.tag = "Solved" => solve_time(game_state)' = Some(game_state'.took)
       /\ (game_state' = game_state /\ game_state.tag = "Solving")
            => /\ solve_time(game_state)'[1] >= solve_time(game_state)[1]
               /\ solve_time(game_state)'[1] - solve_time(game_state)[1] = now' - now
       /\ (game_state' = game_state /\ game_state.tag = "Solved")
            => solve_time(game_state)' = solve_time(game_state)]_vars

\* A Solved state frozen at 0 and read one clock reading later.
C13_Witness ==
    /\ game_state = Solved(0)
    /\ now = 1
    /\ solve_time(game_state) = Some(0)

\* C14: the history changes only by a regeneration, which empties it, and by
\* a key move request whose slide moved tiles, which appends that key's
\* token at the end; a request that moves nothing and every other event
\* leave it as it is.
C14_History ==
    [][/\ (history' # history /\ ~SuccessfulMove) => (history' = <<>> /\ KeySpace)
       /\ (history' # history /\ SuccessfulMove)
            => \E key \in DOMAIN KEY_IDX_MAP :
                    history' = Append(history, key) /\ KeyOther(key)
       /\ \A key \in DOMAIN KEY_IDX_MAP :
            (SuccessfulMove /\ history' # Append(history, key)) => ~KeyOther(key)]_vars

\* Two key moves on the canonical board, "n" and then "m" back, recorded in
\* that order.
C14_Witness ==
    /\ history = <<"n", "m">>
    /\ moves = 2
    /\ is_solved(puzzle)

\* C15: in every state the space key replaces the board by a generated
\* board of the same shape, a permutation of 0..w*h-1 stored with the
\* 32-byte seed that generated it, and empties the history.
C15_Regenerate ==
    [][KeySpace =>
        /\ puzzle'.shape = puzzle.shape
        /\ IsPermutation(puzzle')
        /\ Len(puzzle'.seed) = SeedLen
        /\ puzzle'.cells = random_with_rng(puzzle'.seed, puzzle.shape)
        /\ history' = <<>>]_vars

\* A board as generated, with an empty history, at the last clock reading
\* and with the dev mode switched on.
C15_Witness ==
    /\ moves = 0
    /\ history = <<>>
    /\ game_state = NotSolving
    /\ now = MaxTime
    /\ dev_mode
    /\ puzzle.seed = SeedOf(1, 1)

\* C16: a board as generated is the board the generator gives for the seed
\* stored with it and the shape, whatever the clock, the board before and
\* the events before were.
C16_Deterministic ==
    moves = 0 =>
        /\ puzzle.seed \in Seeds
        /\ puzzle.shape = shape0
        /\ puzzle.cells = random_with_rng(puzzle.seed, shape0)

\* The board of the seed with first byte 1, generated again by the space
\* key after moves had started the clock.
C16_Witness ==
    /\ moves = 0
    /\ now = MaxTime
    /\ puzzle.seed = SeedOf(1, 1)
    /\ puzzle.cells = <<1, 2, 3, 4, 5, 6, 7, 8, 9, 10, 11, 12, 13, 14, 0, 15>>

\* C17: a repaint tick, wherever it falls between the other events, leaves
\* the board, the seed, the game state, the history and the dev mode as
\* they are.
C17_TickReadsOnly ==
    [][<<puzzle, history, dev_mode, game_state>>' # <<puzzle, history, dev_mode, game_state>>
        => ~PrePaint]_vars

\* Solving on a solved board, the clock ahead of since, the dev mode on: a
\* tick here reads a positive solve_time and changes nothing.
C17_Witness ==
    /\ game_state.tag = "Solving"
    /\ is_solved(puzzle)
    /\ now > game_state.since
    /\ dev_mode
    /\ moves >= 1
    /\ solve_time(game_state) = Some(now - game_state.since)

\* The step is one of the key commands that set the game state.
Command == KeySpace \/ Key1 \/ Key2 \/ Key3

\* C18: no step takes NotSolving to Solved: Solved is entered from Solving
\* only. A successful move made while NotSolving gives Solving even when
\* it leaves the board solved, and Solving on a solved board changes only
\* by a successful move or a command.
C18_SolvedFromSolving ==
    [][/\ (game_state'.tag = "Solved" /\ game_state.tag # "Solved")
            => game_state.tag = "Solving"
       /\ (game_state.tag = "NotSolving" /\ SuccessfulMove /\ is_solved(puzzle'))
            => game_state'.tag = "Solving"
       /\ (game_state.tag = "Solving" /\ is_solved(puzzle) /\ game_state' # game_state)
            => (SuccessfulMove \/ Command)]_vars

\* The board solved by its first move, with the clock started by that move
\* at the reading 1 and still running.
C18_Witness ==
    /\ game_state = Solving(1)
    /\ is_solved(puzzle)
    /\ moves = 1
    /\ Len(history) = 1
    /\ puzzle.seed = SeedOf(1, 1)

\* C19: a Solved state is left only by the space key, the key "1" and the
\* key "2"; a successful move made while Solved changes the board and
\* leaves the state and its took as they are.
C19_SolvedStays ==
    [][/\ (game_state.tag = "Solved" /\ game_state' # game_state)
            => (KeySpace \/ Key1 \/ Key2)
       /\ (game_state.tag = "Solved" /\ SuccessfulMove)
            => (game_state' = game_state /\ puzzle'.cells # puzzle.cells)]_vars

\* Solved on a board that a move has left unsolved: the board of the seed
\* with first byte 1 after the solving move and one more.
C19_Witness ==
    /\ game_state.tag = "Solved"
    /\ ~is_solved(puzzle)
    /\ moves = 2
    /\ puzzle.seed = SeedOf(1, 1)

\* C20: a successful pointer move changes the game state as a key move
\* does and leaves the history as it is, so the history is never longer
\* than the number of successful moves since the board was generated, and
\* a successful move leaves the history as it is exactly when it is not a
\* key move.
C20_PointerMoves ==
    [][/\ Len(history') <= moves'
       /\ SuccessfulMove =>
            /\ game_state' = CASE game_state.tag = "NotSolving" -> Solving(now)
                               [] game_state.tag = "Solving" /\ is_solved(puzzle') ->
                                    Solved(now - game_state.since)
                               [] OTHER -> game_state
            /\ Len(history') \in {Len(history), Len(history) + 1}
       /\ history' # history => \A index \in CellIndices : ~Pointer(index)
       /\ (SuccessfulMove /\ history' = history)
            => \A key \in DOMAIN KEY_IDX_MAP : ~KeyOther(key)]_vars

\* Two successful moves, one of them by pointer: the history holds one key
\* and the second move ended the session.
C20_Witness ==
    /\ moves = 2
    /\ Len(history) = 1
    /\ game_state.tag = "Solved"
    /\ is_solved(puzzle)

====
